---- MODULE Spec2Model ----
(***************************************************************************)
(* Model of the messaging relay in src/app.py: the Postgres tables users,  *)
(* conversations and messages, the Socket.IO room registry, and the four   *)
(* request handlers get_or_create_direct_conversation, get_messages,       *)
(* handle_join_conversation and handle_send_message.                       *)
(*                                                                         *)
(* Handlers run concurrently; every database statement (or transaction     *)
(* commit) is one atomic step, and a handler may be suspended between two  *)
(* of them.  Strings are sequences of one-character strings, so that       *)
(* str.strip, int() and the lexicographic order of normalize_pair are      *)
(* computed rather than assumed.                                           *)
(***************************************************************************)
EXTENDS Integers, Sequences, FiniteSets, TLC

VARIABLES users, conversations, convSeq, messages, msgSeq, clock,
          rooms, sessions, inbox, tasks, out

vars == <<users, conversations, convSeq, messages, msgSeq, clock,
          rooms, sessions, inbox, tasks, out>>

dbVars == <<users, conversations, convSeq, messages, msgSeq, clock>>

\* ------------------------------------------------------------------ bounds

\* Number of handler invocations that may be in flight at once.
NumTasks == 2

\* Number of send_message transactions begun in one behaviour.
MaxSends == 2

\* Number of values drawn from conversations_id_seq in one behaviour.
MaxConvSeq == 2

\* Number of chat_history events held by the open connections, and of room
\* memberships, beyond which no further join_conversation is received.
MaxJoins == 2

Tasks == 1 .. NumTasks

\* Socket.IO session ids of the client connections.
Sids == {"s1", "s2"}

SidBefore(r, s) == r = "s1" /\ s = "s2"

\* ------------------------------------------------------------------ values

\* Python's None, as a value that is no string of the inputs below.
None == <<"None">>

\* LIMIT 50 of the history query and the default of ?limit=.
DefaultLimit == 50

Whitespace == {" ", "\t", "\n"}

Digits == {"0", "1", "2", "3", "4", "5", "6", "7", "8", "9"}

DigitVal(ch) ==
    CASE ch = "0" -> 0 [] ch = "1" -> 1 [] ch = "2" -> 2 [] ch = "3" -> 3
      [] ch = "4" -> 4 [] ch = "5" -> 5 [] ch = "6" -> 6 [] ch = "7" -> 7
      [] ch = "8" -> 8 [] ch = "9" -> 9

\* Code points of the characters identifiers are made of.
Ord(ch) ==
    CASE ch = " " -> 32 [] ch = "a" -> 97 [] ch = "b" -> 98 [] ch = "c" -> 99
      [] ch = "h" -> 104 [] ch = "i" -> 105 [] OTHER -> 0

\* Python's a < b on str: lexicographic by code point, a proper prefix first.
RECURSIVE StrLess(_, _)
StrLess(a, b) ==
    IF b = <<>> THEN FALSE
    ELSE IF a = <<>> THEN TRUE
    ELSE IF Ord(Head(a)) # Ord(Head(b)) THEN Ord(Head(a)) < Ord(Head(b))
    ELSE StrLess(Tail(a), Tail(b))

RECURSIVE LStrip(_)
LStrip(s) ==
    IF s # <<>> /\ Head(s) \in Whitespace THEN LStrip(Tail(s)) ELSE s

RECURSIVE RStrip(_)
RStrip(s) ==
    IF s # <<>> /\ s[Len(s)] \in Whitespace
    THEN RStrip(SubSeq(s, 1, Len(s) - 1)) ELSE s

\* strip() left out.
Strip_omitted(s) == s

\* str.strip()
Strip(s) == RStrip(LStrip(s))

RECURSIVE DigitsValue(_, _)
DigitsValue(s, acc) ==
    IF s = <<>> THEN acc ELSE DigitsValue(Tail(s), 10 * acc + DigitVal(Head(s)))

AllDigits(s) == s # <<>> /\ \A i \in 1 .. Len(s) : s[i] \in Digits

\* int(x): ok is FALSE where Python raises TypeError (None) or ValueError.
ParseInt(x) ==
    IF x = None \/ x = <<>> THEN [ok |-> FALSE, val |-> 0]
    ELSE IF Head(x) = "-" /\ AllDigits(Tail(x))
         THEN [ok |-> TRUE, val |-> 0 - DigitsValue(Tail(x), 0)]
    ELSE IF AllDigits(x) THEN [ok |-> TRUE, val |-> DigitsValue(x, 0)]
    ELSE [ok |-> FALSE, val |-> 0]

\* A test against None alone: the empty string passes.
Truthy_none_only(x) == x # None

\* Python truthiness of an optional string: None and "" are falsy.
Truthy(x) == x # None /\ x # <<>>

\* ------------------------------------------------------------------ inputs

UserA == <<"a">>
UserB == <<"b">>
UserC == <<"c">>

\* Query strings of GET /conversations/direct: both orders of a pair, a
\* self-pair, and a missing or an empty parameter on either side.
DirectInputs ==
    {[me |-> UserA, other |-> UserB], [me |-> UserB, other |-> UserA],
     [me |-> UserA, other |-> UserA],
     [me |-> None, other |-> UserB], [me |-> UserA, other |-> <<>>]}

\* Payloads of send_message: texts with and without surrounding blanks, and
\* payloads whose sender or text is missing, empty or blank.
SendInputs ==
    {[conversation_id |-> <<"1">>, sender_id |-> UserA, text |-> <<" ", "h", "i", " ">>],
     [conversation_id |-> <<"1">>, sender_id |-> UserC, text |-> <<"h", "i">>],
     [conversation_id |-> <<"1">>, sender_id |-> None, text |-> <<"h", "i">>],
     [conversation_id |-> <<"1">>, sender_id |-> <<>>, text |-> <<"h", "i">>],
     [conversation_id |-> <<"1">>, sender_id |-> UserA, text |-> None],
     [conversation_id |-> <<"1">>, sender_id |-> UserA, text |-> <<" ", "\t">>]}

\* Bodies of POST /seed-users (the list under "users"): none; a name given
\* for a; a missing name, and an entry with no id; the same id twice with
\* two names.
SeedInputs ==
    {<<>>,
     <<[id |-> UserA, name |-> <<"A", "l">>]>>,
     <<[id |-> UserB, name |-> None], [id |-> None, name |-> <<"x">>]>>,
     <<[id |-> UserC, name |-> <<"C", "y">>], [id |-> UserC, name |-> <<"C", "z">>]>>}

\* Values of data["conversation_id"] of join_conversation.
ConvInputs == {<<"1">>, <<"2">>}

\* Values of the ?limit= query parameter (None: absent).
LimitInputs == {None, <<"0">>, <<"1">>, <<"2">>, <<"5", "0">>, <<"-", "1">>, <<"x">>}

\* Values of the <int:conv_id> path segment.
ConvIds == 1 .. 2

\* ------------------------------------------------------------------ helpers

\* normalize_pair without the swap.
normalize_pair_unordered(a, b) == <<a, b>>

normalize_pair(a, b) == IF StrLess(a, b) THEN <<a, b>> ELSE <<b, a>>

conv_room(conv_id) == <<"conv", conv_id>>

\* datetime.isoformat(): the timestamp as text.
isoformat(ts) == [iso |-> ts]

\* An upsert that replaces the row of a known id.
UpsertUser_overwriting(table, uid) ==
    {u \in table : u.id # uid} \cup {[id |-> uid, name |-> uid]}

\* INSERT INTO users ... ON CONFLICT (id) DO NOTHING
UpsertUser(table, uid) ==
    IF \E u \in table : u.id = uid THEN table
    ELSE table \cup {[id |-> uid, name |-> uid]}

\* The rows of conversation conv_id met on a backward scan of the primary
\* key from id k, stopping after n rows.
RECURSIVE ScanBackward(_, _, _, _)
ScanBackward(table, conv_id, k, n) ==
    IF k = 0 \/ n = 0 THEN <<>>
    ELSE LET hit == {r \in table : r.id = k /\ r.conversation_id = conv_id}
         IN IF hit = {} THEN ScanBackward(table, conv_id, k - 1, n)
            ELSE <<CHOOSE r \in hit : TRUE>>
                     \o ScanBackward(table, conv_id, k - 1, n - 1)

\* SELECT ... FROM messages WHERE conversation_id=%s ORDER BY id DESC LIMIT %s
\* (ids are drawn from messages_id_seq, whose last value is msgSeq)
SelectRecent(table, conv_id, n) == ScanBackward(table, conv_id, msgSeq, n)

\* reversed() left out: the rows stay newest first.
reversed_omitted(seq) == seq

reversed(seq) == [i \in 1 .. Len(seq) |-> seq[Len(seq) + 1 - i]]

\* The dict built for each row of a history read.
MessageDict(r) ==
    [id |-> r.id, sender |-> r.sender_id, text |-> r.text,
     created_at |-> isoformat(r.created_at)]

\* [ {...} for r in reversed(rows) ]
HistoryOf(rows) == [i \in 1 .. Len(rows) |-> MessageDict(reversed(rows)[i])]

\* msg_payload of handle_send_message
MsgPayload(row) ==
    [id |-> row.id, conversation_id |-> row.conversation_id,
     sender |-> row.sender_id, text |-> row.text,
     created_at |-> isoformat(row.created_at)]

\* ------------------------------------------------------------------ state

NoRow == [id |-> 0, conversation_id |-> 0, sender_id |-> <<>>, text |-> <<>>,
          created_at |-> 0]

\* A handler invocation: its position (pc), the connection it serves (sid)
\* and its local variables.
IdleTask == [pc |-> "idle", sid |-> "", req |-> <<>>, conv |-> 0,
             u1 |-> <<>>, u2 |-> <<>>, row |-> NoRow]

\* out is how the handler that ended in the step just taken answered its
\* request req, or NoResp if the step ended none or the handler simply returned.
NoResp == [op |-> "", status |-> "", req |-> <<>>, body |-> <<>>]

Init ==
    /\ users = {}
    /\ conversations = {}
    /\ convSeq = 0
    /\ messages = {}
    /\ msgSeq = 0
    /\ clock = 0
    /\ rooms = {}
    /\ sessions = [s \in Sids |-> "new"]
    /\ inbox = [s \in Sids |-> <<>>]
    /\ tasks = [t \in Tasks |-> IdleTask]
    /\ out = NoResp

Idle(t) == tasks[t].pc = "idle"

\* A new handler invocation takes the first idle task.
Free(t) == Idle(t) /\ \A u \in Tasks : u < t => ~ Idle(u)

Open(s) == sessions[s] = "open"

\* The handler of task t ends with outcome r.
Finish(t, r) ==
    /\ tasks' = [tasks EXCEPT ![t] = IdleTask]
    /\ out' = r

\* The handler of task t moves on to task state s.
Goto(t, s) ==
    /\ tasks' = [tasks EXCEPT ![t] = s]
    /\ out' = NoResp

\* An exception leaves the handler: a 500 on the request path, nothing sent
\* on the event path.
Raised(op, req, what) ==
    [op |-> op, status |-> "error", req |-> req, body |-> [error |-> what]]

\* ------------------------------------------------------------------ rooms

\* The sids python-socketio holds for a room.
RoomMembers(reg, room) == {s \in Sids : <<room, s>> \in reg}

\* A join that moves the connection: it leaves every room it was in.
join_room_exclusive(reg, room, sid) ==
    {m \in reg : m[2] # sid} \cup {<<room, sid>>}

\* A join that registers nothing.
join_room_skipped(reg, room, sid) == reg

\* join_room(room) for the connection sid
join_room(reg, room, sid) == reg \cup {<<room, sid>>}

\* emit with the first member of the room skipped.
EmitToRoom_skipping(box, reg, room, ev) ==
    [s \in Sids |-> IF /\ <<room, s>> \in reg
                       /\ \E r \in Sids : <<room, r>> \in reg /\ SidBefore(r, s)
                    THEN Append(box[s], ev) ELSE box[s]]

\* emit that ignores the room: one packet to every open connection.
EmitToRoom_everyone(box, reg, room, ev) ==
    [s \in Sids |-> IF sessions[s] = "open" THEN Append(box[s], ev) ELSE box[s]]

\* emit(event, data, room=room): one packet to each member of the room.
EmitToRoom(box, reg, room, ev) ==
    [s \in Sids |-> IF s \in RoomMembers(reg, room) THEN Append(box[s], ev)
                    ELSE box[s]]

\* emit with broadcast=True: one packet to every open connection.
EmitToSid_broadcast(box, sess, sid, ev) ==
    [s \in Sids |-> IF sess[s] = "open" THEN Append(box[s], ev) ELSE box[s]]

\* emit(event, data): one packet to the connection the handler serves.
EmitToSid(box, sess, sid, ev) ==
    [s \in Sids |-> IF s = sid /\ sess[s] = "open" THEN Append(box[s], ev)
                    ELSE box[s]]

\* A client opens a connection: a fresh sid, member of no room.  Sids are
\* issued in order.
Connect(s) ==
    /\ sessions[s] = "new"
    /\ \A r \in Sids : SidBefore(r, s) => sessions[r] # "new"
    /\ sessions' = [sessions EXCEPT ![s] = "open"]
    /\ out' = NoResp
    /\ UNCHANGED <<dbVars, rooms, inbox, tasks>>

\* A disconnect that leaves the room registry as it is.
LeaveAll_kept(reg, sid) == reg

\* The registry once python-socketio has removed sid from every room.
LeaveAll(reg, sid) == {m \in reg : m[2] # sid}

\* The connection closes: python-socketio removes the sid from every room,
\* and what was sent over the connection is gone with it.
Disconnect(s) ==
    /\ Open(s)
    /\ sessions' = [sessions EXCEPT ![s] = "closed"]
    /\ rooms' = LeaveAll(rooms, s)
    /\ inbox' = [inbox EXCEPT ![s] = <<>>]
    /\ out' = NoResp
    /\ UNCHANGED <<dbVars, tasks>>

\* ------------------------------------------------------------------ POST /seed-users

\* INSERT INTO users (id, name) VALUES (uid, name) ON CONFLICT (id) DO NOTHING
InsertUser(table, uid, name) ==
    IF \E u \in table : u.id = uid THEN table
    ELSE table \cup {[id |-> uid, name |-> name]}

\* The loop of seed_users over the entries of the body: an entry with no id
\* is skipped, an entry with no name takes its id as name.
RECURSIVE SeedTable(_, _)
SeedTable(table, body) ==
    IF body = <<>> THEN table
    ELSE LET u == Head(body)
             name == IF Truthy(u.name) THEN u.name ELSE u.id
         IN IF ~ Truthy(u.id) THEN SeedTable(table, Tail(body))
            ELSE SeedTable(InsertUser(table, u.id, name), Tail(body))

\* ------------------------------------------------------------------ GET /conversations/direct

\* SELECT id FROM conversations WHERE user1_id=%s AND user2_id=%s
SelectConversation(table, u1, u2) ==
    {c \in table : c.user1_id = u1 /\ c.user2_id = u2}

\* The conversations table without its UNIQUE constraint.
UniqueViolation_never(table, u1, u2) == FALSE

\* UNIQUE (user1_id, user2_id): the INSERT of a pair already stored fails.
UniqueViolation(table, u1, u2) ==
    \E c \in table : c.user1_id = u1 /\ c.user2_id = u2

DirectInFlight ==
    Cardinality({t \in Tasks : tasks[t].pc \in {"direct_select", "direct_insert"}})

\* An uncommitted INSERT INTO users of a send_message transaction holds the
\* key uid: another upsert of uid waits for that transaction to end.
UserLocked(uid) ==
    /\ ~ \E u \in users : u.id = uid
    /\ \E t \in Tasks : tasks[t].pc = "send_insert" /\ tasks[t].row.sender_id = uid

\* Lines 132-151: an empty list is answered 400; otherwise every entry is
\* upserted and the transaction commits.
SeedUsers(t, body, up) ==
    /\ Free(t)
    /\ \A i \in 1 .. Len(body) : Truthy(body[i].id) => ~ UserLocked(body[i].id)
    /\ IF body = <<>>
       THEN /\ users' = users
            /\ Finish(t, [op |-> "seed", status |-> "400", req |-> body,
                          body |-> [status |-> "no_users_given"]])
       ELSE IF ~ up
       THEN /\ users' = users
            /\ Finish(t, Raised("seed", body, "OperationalError"))
       ELSE /\ users' = SeedTable(users, body)
            /\ Finish(t, [op |-> "seed", status |-> "200", req |-> body,
                          body |-> [status |-> "ok", count |-> Len(body)]])
    /\ UNCHANGED <<conversations, convSeq, messages, msgSeq, clock,
                   rooms, sessions, inbox>>

\* Lines 183-187: a missing or empty parameter is answered 400.
DirectBadRequest(t, q) ==
    /\ Free(t)
    /\ ~ Truthy(q.me) \/ ~ Truthy(q.other)
    /\ Finish(t, [op |-> "direct", status |-> "400", req |-> q,
                  body |-> [error |-> "me and other query params are required"]])
    /\ UNCHANGED <<dbVars, rooms, sessions, inbox>>

\* Lines 189-197: normalise the pair, upsert both participants, commit.
DirectUpsert(t, q, up) ==
    /\ Free(t)
    /\ Truthy(q.me) /\ Truthy(q.other)
    /\ convSeq + DirectInFlight < MaxConvSeq
    /\ ~ UserLocked(q.me) /\ ~ UserLocked(q.other)
    /\ LET p == normalize_pair(q.me, q.other)
       IN IF up
          THEN /\ users' = UpsertUser(UpsertUser(users, p[1]), p[2])
               /\ Goto(t, [IdleTask EXCEPT !.pc = "direct_select", !.req = q,
                                           !.u1 = p[1], !.u2 = p[2]])
          ELSE /\ users' = users
               /\ Finish(t, Raised("direct", q, "OperationalError"))
    /\ UNCHANGED <<conversations, convSeq, messages, msgSeq, clock,
                   rooms, sessions, inbox>>

DirectOk(tk, conv_id) ==
    [op |-> "direct", status |-> "200", req |-> tk.req,
     body |-> [conversation_id |-> conv_id, user1_id |-> tk.u1, user2_id |-> tk.u2]]

\* Lines 199-207: SELECT the conversation of the normalised pair.
DirectSelect(t, up) ==
    /\ tasks[t].pc = "direct_select"
    /\ LET tk == tasks[t]
       IN IF ~ up
          THEN Finish(t, Raised("direct", tk.req, "OperationalError"))
          ELSE IF SelectConversation(conversations, tk.u1, tk.u2) # {}
          THEN LET row == CHOOSE c \in SelectConversation(conversations, tk.u1, tk.u2) :
                              TRUE
               IN Finish(t, DirectOk(tk, row.id))
          ELSE Goto(t, [tk EXCEPT !.pc = "direct_insert"])
    /\ UNCHANGED <<dbVars, rooms, sessions, inbox>>

\* Lines 208-217: INSERT ... RETURNING id, commit.  The sequence value is
\* drawn before the unique index is checked; a duplicate pair raises
\* UniqueViolation, which nothing catches.
DirectInsert(t, up) ==
    /\ tasks[t].pc = "direct_insert"
    /\ LET tk == tasks[t]
       IN IF ~ up
          THEN /\ Finish(t, Raised("direct", tk.req, "OperationalError"))
               /\ UNCHANGED <<conversations, convSeq>>
          ELSE /\ convSeq' = convSeq + 1
               /\ IF UniqueViolation(conversations, tk.u1, tk.u2)
                  THEN /\ conversations' = conversations
                       /\ Finish(t, Raised("direct", tk.req, "UniqueViolation"))
                  ELSE /\ conversations' = conversations \cup
                              {[id |-> convSeq + 1, user1_id |-> tk.u1,
                                user2_id |-> tk.u2]}
                       /\ Finish(t, DirectOk(tk, convSeq + 1))
    /\ UNCHANGED <<users, messages, msgSeq, clock, rooms, sessions, inbox>>

\* ------------------------------------------------------------------ GET /conversations/<id>/messages

\* Lines 220-251: one SELECT, answered at once.  int() raises on a limit that
\* is no integer; Postgres rejects a negative LIMIT.
GetMessages(t, conv_id, limit, up) ==
    /\ Free(t)
    /\ LET lim == IF limit = None THEN [ok |-> TRUE, val |-> DefaultLimit]
                  ELSE ParseInt(limit)
           req == [conv_id |-> conv_id, limit |-> limit]
       IN IF ~ lim.ok THEN Finish(t, Raised("messages", req, "ValueError"))
          ELSE IF ~ up THEN Finish(t, Raised("messages", req, "OperationalError"))
          ELSE IF lim.val < 0
          THEN Finish(t, Raised("messages", req, "InvalidRowCountInLimitClause"))
          ELSE Finish(t, [op |-> "messages", status |-> "200", req |-> req,
                          body |-> [conversation_id |-> conv_id,
                                    messages |-> HistoryOf(
                                        SelectRecent(messages, conv_id, lim.val))]])
    /\ UNCHANGED <<dbVars, rooms, sessions, inbox>>

\* ------------------------------------------------------------------ join_conversation

\* chat_history events sent so far, and joins still in flight.
JoinsSoFar ==
    Cardinality({<<s, i>> \in Sids \X (1 .. MaxJoins + MaxSends) :
                    i <= Len(inbox[s]) /\ inbox[s][i].event = "chat_history"})
    + Cardinality({t \in Tasks : tasks[t].pc = "join_select"})

\* Lines 264-269: int() of the conversation id, then join_room.
JoinConversation(t, s, raw) ==
    /\ Free(t)
    /\ Open(s)
    /\ JoinsSoFar < MaxJoins
    /\ Cardinality(rooms) < MaxJoins
    /\ LET p == ParseInt(raw)
       IN IF ~ p.ok
          THEN /\ rooms' = rooms
               /\ Finish(t, Raised("join", raw, "TypeError"))
          ELSE /\ rooms' = join_room(rooms, conv_room(p.val), s)
               /\ Goto(t, [IdleTask EXCEPT !.pc = "join_select", !.sid = s, !.req = raw,
                                           !.conv = p.val])
    /\ UNCHANGED <<dbVars, sessions, inbox>>

ChatHistory(conv_id, rows) ==
    [event |-> "chat_history",
     data |-> [conversation_id |-> conv_id, messages |-> HistoryOf(rows)]]

\* Lines 271-296: the history query, and chat_history emitted to the
\* connection that joined.
JoinHistory(t, up) ==
    /\ tasks[t].pc = "join_select"
    /\ LET tk == tasks[t]
           rows == SelectRecent(messages, tk.conv, DefaultLimit)
       IN IF ~ up
          THEN /\ inbox' = inbox
               /\ Finish(t, Raised("join", tk.req, "OperationalError"))
          ELSE /\ inbox' = EmitToSid(inbox, sessions, tk.sid, ChatHistory(tk.conv, rows))
               /\ Finish(t, NoResp)
    /\ UNCHANGED <<dbVars, rooms, sessions>>

\* ------------------------------------------------------------------ send_message

\* (data.get("text") or "").strip()
TextOf(text) == Strip(IF Truthy(text) THEN text ELSE <<>>)

\* The messages table without its foreign key on conversation_id.
ConversationKnown_unchecked(table, conv_id) == TRUE

\* FOREIGN KEY (conversation_id) REFERENCES conversations(id)
ConversationKnown(table, conv_id) == \E c \in table : c.id = conv_id

\* The insert never committed.
InsertMessage_uncommitted(table, row) == table

\* INSERT INTO messages ..., committed
InsertMessage(table, row) == table \cup {row}

\* Lines 305-310: int() raises on a missing conversation id; a missing
\* sender or a blank text returns at once.
SendDropped(t, s, data) ==
    /\ Free(t)
    /\ Open(s)
    /\ LET p == ParseInt(data.conversation_id)
       IN /\ ~ p.ok \/ ~ Truthy(data.sender_id) \/ TextOf(data.text) = <<>>
          /\ IF ~ p.ok
             THEN Finish(t, Raised("send", data, "TypeError"))
             ELSE Finish(t, [op |-> "send", status |-> "dropped", req |-> data,
                             body |-> <<>>])
    /\ UNCHANGED <<dbVars, rooms, sessions, inbox>>

\* Lines 312-319: the transaction begins (NOW() is its start time) with the
\* upsert of the sender, not yet committed.
SendBegin(t, s, data, up) ==
    /\ Free(t)
    /\ Open(s)
    /\ ParseInt(data.conversation_id).ok
    /\ Truthy(data.sender_id) /\ TextOf(data.text) # <<>>
    /\ clock < MaxSends
    /\ ~ UserLocked(data.sender_id)
    /\ IF up
       THEN /\ clock' = clock + 1
            /\ Goto(t, [IdleTask EXCEPT
                   !.pc = "send_insert", !.req = data,
                   !.conv = ParseInt(data.conversation_id).val,
                   !.row = [NoRow EXCEPT !.conversation_id =
                                             ParseInt(data.conversation_id).val,
                                         !.sender_id = data.sender_id,
                                         !.text = TextOf(data.text),
                                         !.created_at = clock + 1]])
       ELSE /\ clock' = clock
            /\ Finish(t, Raised("send", data, "OperationalError"))
    /\ UNCHANGED <<users, conversations, convSeq, messages, msgSeq,
                   rooms, sessions, inbox>>

\* Lines 321-331: INSERT INTO messages ... RETURNING id, created_at; commit.
\* The sequence value is drawn before the foreign key is checked; on an
\* error nothing of the transaction is committed.
SendInsert(t, up) ==
    /\ tasks[t].pc = "send_insert"
    /\ LET tk == tasks[t]
           row == [tk.row EXCEPT !.id = msgSeq + 1]
       IN IF ~ up
          THEN /\ Finish(t, Raised("send", tk.req, "OperationalError"))
               /\ UNCHANGED <<users, messages, msgSeq>>
          ELSE /\ msgSeq' = msgSeq + 1
               /\ IF ConversationKnown(conversations, tk.conv)
                  THEN /\ users' = UpsertUser(users, tk.row.sender_id)
                       /\ messages' = InsertMessage(messages, row)
                       /\ Goto(t, [tk EXCEPT !.pc = "send_emit", !.row = row])
                  ELSE /\ UNCHANGED <<users, messages>>
                       /\ Finish(t, Raised("send", tk.req, "ForeignKeyViolation"))
    /\ UNCHANGED <<conversations, convSeq, clock, rooms, sessions, inbox>>

NewMessage(row) == [event |-> "new_message", data |-> MsgPayload(row)]

\* Lines 333-347: build msg_payload and emit it to the room.
SendEmit(t) ==
    /\ tasks[t].pc = "send_emit"
    /\ LET tk == tasks[t]
       IN /\ inbox' = EmitToRoom(inbox, rooms, conv_room(tk.conv), NewMessage(tk.row))
          /\ Finish(t, NoResp)
    /\ UNCHANGED <<dbVars, rooms, sessions>>

\* ------------------------------------------------------------------ specification

\* POST /seed-users.
NextSeed ==
    \E t \in Tasks, body \in SeedInputs, up \in BOOLEAN : SeedUsers(t, body, up)

\* The conversation resolver: GET /conversations/direct.
NextResolver ==
    \/ \E t \in Tasks, q \in DirectInputs : DirectBadRequest(t, q)
    \/ \E t \in Tasks, q \in DirectInputs, up \in BOOLEAN : DirectUpsert(t, q, up)
    \/ \E t \in Tasks, up \in BOOLEAN : DirectSelect(t, up)
    \/ \E t \in Tasks, up \in BOOLEAN : DirectInsert(t, up)

\* The history read: GET /conversations/<id>/messages.
NextRead ==
    \E t \in Tasks, c \in ConvIds, limit \in LimitInputs, up \in BOOLEAN :
        GetMessages(t, c, limit, up)

\* Connections and join_conversation.
NextJoin ==
    \/ \E s \in Sids : Connect(s)
    \/ \E s \in Sids : Disconnect(s)
    \/ \E t \in Tasks, s \in Sids, raw \in ConvInputs : JoinConversation(t, s, raw)
    \/ \E t \in Tasks, up \in BOOLEAN : JoinHistory(t, up)

\* send_message.
NextSend ==
    \/ \E t \in Tasks, s \in Sids, data \in SendInputs : SendDropped(t, s, data)
    \/ \E t \in Tasks, s \in Sids, data \in SendInputs, up \in BOOLEAN :
          SendBegin(t, s, data, up)
    \/ \E t \in Tasks, up \in BOOLEAN : SendInsert(t, up)
    \/ \E t \in Tasks : SendEmit(t)

\* The event stream: connections, join_conversation and send_message.
NextChat == NextJoin \/ NextSend

Next == NextSeed \/ NextResolver \/ NextRead \/ NextChat

\* The whole service, from an empty database.
Spec == Init /\ [][Next]_vars

\* The resolver alone, from an empty database.
SpecResolver == Init /\ [][NextResolver]_vars

\* The operations that write the users table.
NextUsers ==
    \/ NextSeed
    \/ NextResolver
    \/ \E s \in Sids : Connect(s)
    \/ NextSend

\* Seeding, the resolver and send_message, from an empty database.
SpecUsers == Init /\ [][NextUsers]_vars

\* Tables the resolver leaves behind: none yet, or the conversation of a and b.
ChatTables == {{}, {[id |-> 1, user1_id |-> UserA, user2_id |-> UserB]}}

InitChat ==
    /\ conversations \in ChatTables
    /\ users = {[id |-> u, name |-> u] :
                    u \in {c.user1_id : c \in conversations}
                          \cup {c.user2_id : c \in conversations}}
    /\ convSeq = Cardinality(conversations)
    /\ messages = {}
    /\ msgSeq = 0
    /\ clock = 0
    /\ rooms = {}
    /\ sessions = [s \in Sids |-> "new"]
    /\ inbox = [s \in Sids |-> <<>>]
    /\ tasks = [t \in Tasks |-> IdleTask]
    /\ out = NoResp

\* The event stream over the conversations the resolver has created.
SpecChat == InitChat /\ [][NextChat]_vars

\* Sizes of the stored history of conversation 1 that the read is tried on:
\* short ones, and those around the default limit.
HistorySizes == {0, 1, 2, 3, DefaultLimit - 1, DefaultLimit, DefaultLimit + 1}

\* A messages table with n rows, the second of which (when other is set and
\* there is one) belongs to conversation 2, the rest to conversation 1.
HistoryTable(n, other) ==
    {[id |-> i, conversation_id |-> IF other /\ i = 2 THEN 2 ELSE 1,
      sender_id |-> IF i = 1 THEN UserB ELSE UserA,
      text |-> <<"h", "i">>, created_at |-> i] : i \in 1 .. n}

InitRead ==
    /\ conversations = {[id |-> 1, user1_id |-> UserA, user2_id |-> UserB],
                        [id |-> 2, user1_id |-> UserA, user2_id |-> UserA]}
    /\ users = {[id |-> UserA, name |-> UserA], [id |-> UserB, name |-> UserB]}
    /\ convSeq = 2
    /\ \E n \in HistorySizes, other \in BOOLEAN :
          /\ messages = HistoryTable(n, other)
          /\ msgSeq = n
          /\ clock = n
    /\ rooms = {}
    /\ sessions = [s \in Sids |-> "new"]
    /\ inbox = [s \in Sids |-> <<>>]
    /\ tasks = [t \in Tasks |-> IdleTask]
    /\ out = NoResp

\* GET .../messages over stored histories of several sizes.
SpecRead == InitRead /\ [][NextRead]_vars

\* join_conversation over stored histories of several sizes.
SpecJoin == InitRead /\ [][NextJoin]_vars

\* ------------------------------------------------------------------ properties

Min(a, b) == IF a <= b THEN a ELSE b

\* The event, if any, that the step delivers to connection s.
Delivers(s) == Len(inbox'[s]) = Len(inbox[s]) + 1

Delivered(s) == inbox'[s][Len(inbox'[s])]

RowsOf(conv_id) == {r \in messages : r.conversation_id = conv_id}

\* ms is the history of conversation conv_id cut to its lim most recent
\* messages, oldest first.
IsRecent(ms, conv_id, lim) ==
    LET rows == RowsOf(conv_id)
    IN /\ \A i \in 1 .. Len(ms) - 1 : ms[i].id < ms[i + 1].id
       /\ \A i \in 1 .. Len(ms) :
             [id |-> ms[i].id, conversation_id |-> conv_id,
              sender_id |-> ms[i].sender, text |-> ms[i].text,
              created_at |-> ms[i].created_at.iso] \in rows
       /\ Len(ms) <= lim
       /\ Len(ms) = Min(lim, Cardinality(rows))
       /\ \A r \in rows :
             (\E i \in 1 .. Len(ms) : ms[i].id = r.id)
                 <=> Cardinality({q \in rows : q.id > r.id}) < lim

\* C1: whenever a new_message event is delivered to a connection, its row is
\* already in the messages table and a recent-messages read of its
\* conversation taken at that instant returns it.
BroadcastAfterPersist ==
    [][\A s \in Sids :
          (Delivers(s) /\ Delivered(s).event = "new_message") =>
              LET p == Delivered(s).data
                  read == HistoryOf(SelectRecent(messages, p.conversation_id, DefaultLimit))
              IN /\ \E r \in messages :
                        /\ r.id = p.id /\ r.conversation_id = p.conversation_id
                        /\ r.sender_id = p.sender /\ r.text = p.text
                 /\ \E i \in 1 .. Len(read) : read[i].id = p.id]_vars

\* A connection holds a new_message event.
MessageDelivered ==
    \E s \in Sids : \E i \in 1 .. Len(inbox[s]) : inbox[s][i].event = "new_message"

\* C2: there is at most one conversation row per unordered pair of
\* participants, however the SELECT and INSERT steps of concurrent calls
\* interleave.
OneConversationPerPair ==
    \A c, d \in conversations :
        {c.user1_id, c.user2_id} = {d.user1_id, d.user2_id} => c = d

\* Two callers both found no row for the pair and both reached the INSERT.
InsertRace ==
    /\ convSeq >= 2
    /\ Cardinality(conversations) = 1
    /\ out.op = "direct" /\ out.status = "error"
    /\ out.body.error = "UniqueViolation"

\* C3: a caller whose INSERT hits the uniqueness constraint does not fail;
\* no uniqueness error is surfaced.
ConflictNeverSurfaced ==
    (out.op = "direct" /\ out.status = "error") => out.body.error # "UniqueViolation"

\* C4: the conversation_id answered for (me, other) is the id of the one row
\* of the unordered pair {me, other}, and a stored row never changes: both
\* argument orders and every repetition get the same id.
StableConversationKey ==
    [][/\ conversations \subseteq conversations'
       /\ (out'.op = "direct" /\ out'.status = "200") =>
              LET pair == {out'.req.me, out'.req.other}
              IN /\ \E c \in conversations' :
                        /\ c.id = out'.body.conversation_id
                        /\ {c.user1_id, c.user2_id} = pair
                 /\ \A c \in conversations' :
                        {c.user1_id, c.user2_id} = pair
                            => c.id = out'.body.conversation_id]_vars

\* The pair was resolved in the order (b, a), against the stored row (a, b).
ReverseOrderResolved ==
    /\ out.op = "direct" /\ out.status = "200"
    /\ out.req.me = UserB /\ out.req.other = UserA
    /\ \E c \in conversations :
          c.id = out.body.conversation_id /\ c.user1_id = UserA /\ c.user2_id = UserB

BlankText(x) == x = None \/ \A i \in 1 .. Len(x) : x[i] \in Whitespace

InvalidSend(d) == d.sender_id = None \/ d.sender_id = <<>> \/ BlankText(d.text)

\* C5: a send_message whose sender is missing or empty, or whose text is
\* missing or blank, changes no table and delivers no event, and its handler
\* goes no further.
DropOnEmpty ==
    [][/\ (out'.op = "send" /\ InvalidSend(out'.req)) =>
              UNCHANGED <<dbVars, inbox, rooms>>
       /\ \A t \in Tasks :
              tasks'[t].pc \in {"send_insert", "send_emit"} => ~ InvalidSend(tasks'[t].req)
       /\ \A r \in messages' : ~ BlankText(r.text) /\ Truthy(r.sender_id)]_vars

\* A send_message with a blank text was dropped after messages were stored.
BlankDropped ==
    /\ out.op = "send" /\ out.status = "dropped"
    /\ out.req.text = <<" ", "\t">>
    /\ messages # {}

\* C6: the broadcast of a stored message appends exactly one new_message
\* event, carrying the fields of the stored row, to every connection that is
\* in the room at that moment.
FanOut ==
    [][\A t \in Tasks :
          (tasks[t].pc = "send_emit" /\ tasks'[t].pc # "send_emit") =>
              /\ \E r \in messages : r.id = tasks[t].row.id
              /\ LET r == CHOOSE r \in messages : r.id = tasks[t].row.id
                     ev == [event |-> "new_message",
                            data |-> [id |-> r.id,
                                      conversation_id |-> r.conversation_id,
                                      sender |-> r.sender_id, text |-> r.text,
                                      created_at |-> [iso |-> r.created_at]]]
                 IN \A s \in Sids :
                       <<conv_room(r.conversation_id), s>> \in rooms =>
                           /\ inbox'[s] = Append(inbox[s], ev)
                           /\ Cardinality({i \in 1 .. Len(inbox'[s]) :
                                              inbox'[s][i] = ev}) = 1]_vars

\* Both connections hold the same new_message event.
BothReceived ==
    \E i \in 1 .. Len(inbox["s1"]) : \E j \in 1 .. Len(inbox["s2"]) :
        /\ inbox["s1"][i].event = "new_message"
        /\ inbox["s1"][i] = inbox["s2"][j]

\* The limit a GET .../messages request asks for.
AskedLimit == IF out.req.limit = None THEN [ok |-> TRUE, val |-> DefaultLimit]
              ELSE ParseInt(out.req.limit)

StoreFailed == out.status = "error" /\ out.body.error = "OperationalError"

NonPositiveLimitIsDefault ==
    (/\ out.op = "messages" /\ AskedLimit.ok /\ ~ StoreFailed
     /\ (out.req.limit = None \/ AskedLimit.val <= 0)) =>
        /\ out.status = "200"
        /\ IsRecent(out.body.messages, out.req.conv_id, DefaultLimit)

\* C9: join_conversation puts the connection into the room of the
\* conversation, and its history read sends one chat_history event, to that
\* connection alone, with the at most 50 most recent messages oldest first
\* (none: an empty sequence).
JoinReplaysHistory ==
    [][\A t \in Tasks :
          /\ (tasks[t].pc = "idle" /\ tasks'[t].pc = "join_select") =>
                 <<conv_room(tasks'[t].conv), tasks'[t].sid>> \in rooms'
          /\ (tasks[t].pc = "join_select" /\ tasks'[t].pc = "idle" /\ out' = NoResp) =>
                 /\ \A s \in Sids \ {tasks[t].sid} : inbox'[s] = inbox[s]
                 /\ sessions[tasks[t].sid] = "open" =>
                        /\ Delivers(tasks[t].sid)
                        /\ SubSeq(inbox'[tasks[t].sid], 1, Len(inbox[tasks[t].sid]))
                               = inbox[tasks[t].sid]
                        /\ Delivered(tasks[t].sid).event = "chat_history"
                        /\ Delivered(tasks[t].sid).data.conversation_id = tasks[t].conv
                        /\ IsRecent(Delivered(tasks[t].sid).data.messages,
                                    tasks[t].conv, DefaultLimit)]_vars

\* A connection was sent a history cut to 50 messages while the other
\* connection, open as well, was sent nothing.
HistoryTruncated ==
    \E s, o \in Sids :
        /\ s # o /\ sessions[o] = "open" /\ inbox[o] = <<>>
        /\ \E i \in 1 .. Len(inbox[s]) :
              /\ inbox[s][i].event = "chat_history"
              /\ Len(inbox[s][i].data.messages) = DefaultLimit
              /\ Cardinality(RowsOf(inbox[s][i].data.conversation_id)) > DefaultLimit

\* C10: every stored message belongs to a stored conversation; a
\* send_message whose persistence fails leaves the tables and every
\* connection as they were; and a new_message event is delivered only for a
\* stored message.
NoPartialBroadcast ==
    [][/\ \A r \in messages' : \E c \in conversations' : c.id = r.conversation_id
       /\ (out'.op = "send" /\ out'.status = "error") =>
              /\ messages' = messages /\ users' = users /\ inbox' = inbox
       /\ \A s \in Sids :
              (Delivers(s) /\ Delivered(s).event = "new_message") =>
                  \E r \in messages' : r.id = Delivered(s).data.id]_vars

\* The INSERT of a message for a conversation that does not exist failed.
PersistenceFailed ==
    /\ out.op = "send" /\ out.status = "error"
    /\ out.body.error = "ForeignKeyViolation"
    /\ msgSeq > Cardinality(messages)

\* C11: every stored conversation row, and every answer of
\* get_or_create_direct_conversation, has user1_id strictly before user2_id
\* in the lexicographic order, whatever accepted pair was asked for (me equal
\* to other included).
CanonicalOrderStrict ==
    /\ \A c \in conversations : StrLess(c.user1_id, c.user2_id)
    /\ (out.op = "direct" /\ out.status = "200") =>
           StrLess(out.body.user1_id, out.body.user2_id)

MissingOrEmpty(x) == x = None \/ x = <<>>

\* C12: a get_or_create_direct_conversation request whose me or other is
\* missing or empty is answered 400 in its first step, and that step changes
\* no table: no participant is upserted, no conversation is created, no
\* sequence value is drawn.
BadRequestChangesNothing ==
    [][/\ \A t \in Tasks :
              tasks'[t].pc \in {"direct_select", "direct_insert"} =>
                  ~ MissingOrEmpty(tasks'[t].req.me) /\ ~ MissingOrEmpty(tasks'[t].req.other)
       /\ (/\ out'.op = "direct"
           /\ MissingOrEmpty(out'.req.me) \/ MissingOrEmpty(out'.req.other)) =>
              /\ out'.status = "400"
              /\ UNCHANGED dbVars]_vars

\* A request with an empty other was answered 400 on a database that already
\* holds participants and a conversation.
EmptyOtherRejected ==
    /\ out.op = "direct" /\ out.status = "400"
    /\ out.req.other = <<>>
    /\ users # {} /\ conversations # {}

\* C13: a connection that is not open is in no room; once closed it is
\* delivered nothing more; the step that closes it removes no stored message
\* and stops no handler; stored messages are never removed later either; and
\* a connection that opens is in no room.
DisconnectEndsDelivery ==
    [][/\ \A s \in Sids :
              sessions'[s] # "open" => ~ \E m \in rooms' : m[2] = s
       /\ \A s \in Sids : sessions[s] = "closed" => inbox'[s] = inbox[s]
       /\ \A s \in Sids :
              (sessions[s] = "open" /\ sessions'[s] = "closed") =>
                  /\ ~ Delivers(s)
                  /\ UNCHANGED <<dbVars, tasks>>
       /\ messages \subseteq messages'
       /\ \A s \in Sids :
              (sessions[s] = "new" /\ sessions'[s] = "open") =>
                  ~ \E m \in rooms' : m[2] = s]_vars

\* A connection has closed while a stored message still awaits its
\* broadcast to a room the other connection is in.
BroadcastAfterDisconnect ==
    \E s, o \in Sids : \E t \in Tasks :
        /\ sessions[s] = "closed" /\ sessions[o] = "open"
        /\ tasks[t].pc = "send_emit"
        /\ <<<<"conv", tasks[t].conv>>, o>> \in rooms
        /\ \E r \in messages : r.id = tasks[t].row.id

\* C14: message ids are unique, and of two stored messages of one
\* conversation the one with the smaller id was not created later than the
\* other.
IdOrderIsTimeOrder ==
    /\ \A r, q \in messages : r.id = q.id => r = q
    /\ \A r, q \in messages :
          (r.conversation_id = q.conversation_id /\ r.id < q.id) =>
              r.created_at <= q.created_at

\* The ids of the messages of conversation conv_id that connection s was sent
\* in chat_history snapshots, and those it was sent as new_message events.
SnapshotIds(s, conv_id) ==
    {inbox[s][i].data.messages[j].id :
        <<i, j>> \in {p \in (1 .. Len(inbox[s])) \X (1 .. msgSeq) :
                        /\ inbox[s][p[1]].event = "chat_history"
                        /\ inbox[s][p[1]].data.conversation_id = conv_id
                        /\ p[2] <= Len(inbox[s][p[1]].data.messages)}}

LiveIds(s, conv_id) ==
    {inbox[s][i].data.id :
        i \in {k \in 1 .. Len(inbox[s]) :
                 /\ inbox[s][k].event = "new_message"
                 /\ inbox[s][k].data.conversation_id = conv_id}}

\* C15: no message reaches a connection both in a chat_history snapshot and
\* as a new_message event.
HistoryLiveAtMostOnce ==
    \A s \in Sids : \A c \in ConvIds : SnapshotIds(s, c) \cap LiveIds(s, c) = {}

\* Connection s holds a chat_history snapshot of conversation conv_id.
HoldsSnapshot(s, conv_id) ==
    \E i \in 1 .. Len(inbox[s]) :
        /\ inbox[s][i].event = "chat_history"
        /\ inbox[s][i].data.conversation_id = conv_id

\* Message r was beyond the 50 most recent of a snapshot sent to s.
CutFromSnapshot(s, r) ==
    \E i \in 1 .. Len(inbox[s]) :
        /\ inbox[s][i].event = "chat_history"
        /\ inbox[s][i].data.conversation_id = r.conversation_id
        /\ Len(inbox[s][i].data.messages) = DefaultLimit
        /\ r.id < inbox[s][i].data.messages[1].id

\* C16: for an open connection that was sent the snapshot of its join of
\* conversation c, every stored message of c is in a snapshot it was sent, or
\* was delivered to it as new_message, or is still awaiting its broadcast
\* (which will reach the connection), unless it was beyond the 50 most recent
\* of the snapshot.
HistoryLiveNoGap ==
    \A s \in Sids : \A c \in ConvIds :
        (Open(s) /\ HoldsSnapshot(s, c)) =>
            \A r \in RowsOf(c) :
                \/ r.id \in SnapshotIds(s, c)
                \/ r.id \in LiveIds(s, c)
                \/ \E t \in Tasks : tasks[t].pc = "send_emit" /\ tasks[t].row.id = r.id
                \/ CutFromSnapshot(s, r)

\* A connection was sent message 1 in its snapshot and message 2, stored
\* after the snapshot was read, as a new_message event.
SnapshotThenLive ==
    \E s \in Sids :
        /\ Open(s)
        /\ SnapshotIds(s, 1) = {1}
        /\ LiveIds(s, 1) = {2}

\* C17: a new_message event of conversation c is delivered only to an open
\* connection that is in the room of c, and a connection comes to be in the
\* room of c only by a join_conversation for c received from that same
\* connection; a connection that joined other conversations or none, the
\* sender's included, is delivered nothing.
RoomIsolation ==
    [][/\ \A s \in Sids :
              (Delivers(s) /\ Delivered(s).event = "new_message") =>
                  /\ sessions[s] = "open"
                  /\ <<<<"conv", Delivered(s).data.conversation_id>>, s>> \in rooms
       /\ \A m \in rooms' \ rooms :
              \E t \in Tasks :
                  /\ tasks[t].pc = "idle" /\ tasks'[t].pc = "join_select"
                  /\ tasks'[t].sid = m[2]
                  /\ m[1] = <<"conv", ParseInt(tasks'[t].req).val>>]_vars

\* A message of conversation 1 was delivered to the connection that joined
\* it, and not to the other connection, open and in the room of
\* conversation 2 alone.
DeliveredToMembersOnly ==
    \E s, o \in Sids :
        /\ sessions[s] = "open" /\ sessions[o] = "open"
        /\ 1 \in LiveIds(s, 1)
        /\ {m \in rooms : m[2] = o} = {<<<<"conv", 2>>, o>>}
        /\ LiveIds(o, 1) = {}
        /\ \A t \in Tasks : tasks[t].pc = "idle"

\* C18: a join_conversation adds the pair (room, connection) to the set of
\* memberships and changes nothing else of it: memberships of other
\* conversations stay, and a pair already there leaves the set as it was;
\* the broadcast of a message then appends exactly one event to each
\* connection in the room and none to the others.
MembershipIsSet ==
    [][\A t \in Tasks :
          /\ (tasks[t].pc = "idle" /\ tasks'[t].pc = "join_select") =>
                 LET m == <<<<"conv", ParseInt(tasks'[t].req).val>>, tasks'[t].sid>>
                 IN /\ rooms' = rooms \cup {m}
                    /\ m \in rooms => rooms' = rooms
          /\ (tasks[t].pc = "send_emit" /\ tasks'[t].pc = "idle") =>
                 \A s \in Sids :
                     IF <<<<"conv", tasks[t].row.conversation_id>>, s>> \in rooms
                     THEN /\ Len(inbox'[s]) = Len(inbox[s]) + 1
                          /\ SubSeq(inbox'[s], 1, Len(inbox[s])) = inbox[s]
                          /\ Delivered(s).event = "new_message"
                          /\ Delivered(s).data.id = tasks[t].row.id
                     ELSE inbox'[s] = inbox[s]]_vars

\* A connection joined conversation 1 twice (it was sent two snapshots) and
\* then was delivered the one message of the conversation once.
JoinedTwiceDeliveredOnce ==
    \E s \in Sids :
        /\ Len(inbox[s]) = 3
        /\ inbox[s][1].event = "chat_history" /\ inbox[s][1].data.conversation_id = 1
        /\ inbox[s][2].event = "chat_history" /\ inbox[s][2].data.conversation_id = 1
        /\ inbox[s][3].event = "new_message" /\ inbox[s][3].data.conversation_id = 1
        /\ Cardinality(messages) = 1

\* A connection in the room of conversation 1 joined conversation 2 as well
\* and was then delivered a message of conversation 1.
JoinedBothStillDelivered ==
    \E s \in Sids :
        /\ Len(inbox[s]) = 3
        /\ inbox[s][1].event = "chat_history" /\ inbox[s][1].data.conversation_id = 1
        /\ inbox[s][2].event = "chat_history" /\ inbox[s][2].data.conversation_id = 2
        /\ inbox[s][3].event = "new_message" /\ inbox[s][3].data.conversation_id = 1

\* C19: a step keeps every participant row as it is (no row is removed, no
\* name changes) and the table holds one row per id; a row added by the
\* conversation lookup or by a send whose message was stored has its id as
\* name, and no other step but a seeding adds one; a row added by a seeding
\* has the name of an entry of the request, or its id; and seeding the
\* resulting table with the same request again leaves it as it is.
UpsertKeepsParticipants ==
    [][/\ users \subseteq users'
       /\ \A u, v \in users' : u.id = v.id => u = v
       /\ \A u \in users' \ users :
              IF out'.op = "seed"
              THEN \E i \in 1 .. Len(out'.req) :
                      /\ out'.req[i].id = u.id
                      /\ u.name = IF out'.req[i].name \in {None, <<>>}
                                  THEN u.id ELSE out'.req[i].name
              ELSE /\ u.name = u.id
                   /\ \/ \E t \in Tasks :
                             /\ tasks[t].pc = "idle" /\ tasks'[t].pc = "direct_select"
                             /\ u.id \in {tasks'[t].req.me, tasks'[t].req.other}
                      \/ \E r \in messages' \ messages : r.sender_id = u.id
       /\ (out'.op = "seed" /\ out'.status = "200") =>
              /\ \A i \in 1 .. Len(out'.req) :
                     out'.req[i].id \in {None, <<>>}
                         \/ \E u \in users' : u.id = out'.req[i].id
              /\ SeedTable(users', out'.req) = users']_vars

\* A participant seeded under a name of its own has kept it through a
\* conversation lookup by its id, next to a participant first seen by a
\* stored message; the seeding request was then applied a second time.
SeededNameKept ==
    /\ [id |-> UserA, name |-> <<"A", "l">>] \in users
    /\ \E c \in conversations : c.user1_id = UserA /\ c.user2_id = UserB
    /\ [id |-> UserC, name |-> UserC] \in users
    /\ \E r \in messages : r.sender_id = UserC
    /\ out.op = "seed" /\ out.status = "200"
    /\ out.req = <<[id |-> UserA, name |-> <<"A", "l">>]>>
    /\ convSeq = 1

====
